---- MODULE Spec2Model ----
(***************************************************************************)
(* Model of "kubectl set selector" (pkg/kubectl/cmd/set/set_selector.go):   *)
(* the command's Complete / Validate / RunSelector sequence, the per-object *)
(* visit function of RunSelector and the mutator updateSelectorForObject.   *)
(***************************************************************************)
EXTENDS Integers, Sequences, FiniteSets, TLC

\* ------------------------------------------------------------------ bounds
\* Largest number of target objects one invocation resolves.
MaxObjs == 2

\* ------------------------------------------------------------ label maps
\* A map[string]string is a function whose domain is a finite set of keys.
EmptyMap == [k \in {} |-> ""]

Map1(k, v) == [x \in {k} |-> v]

Map2(k1, v1, k2, v2) == [x \in {k1, k2} |-> IF x = k1 THEN v1 ELSE v2]

\* The tokens a selector expression argument can be; the last one is malformed.
Exprs == {"env=qa", "env in (qa,prod)", "tier=qa,env in (qa,prod)", "=qa"}

\* metav1.LabelSelector: MatchLabels and MatchExpressions.
\* The field "nil" tells a nil *metav1.LabelSelector from a parsed one.
LabelSelector(labels, exprs) ==
    [nil |-> FALSE, MatchLabels |-> labels, MatchExpressions |-> exprs]

NilSelector == [nil |-> TRUE, MatchLabels |-> EmptyMap, MatchExpressions |-> <<>>]

\* metav1.ParseToLabelSelector: an equality term goes to MatchLabels, a
\* set-based term to MatchExpressions, malformed syntax is a parse error.
ParseToLabelSelector(expr) ==
    CASE expr = "env=qa" ->
            [selector |-> LabelSelector(Map1("env", "qa"), <<>>), err |-> "nil"]
      [] expr = "env in (qa,prod)" ->
            [selector |-> LabelSelector(EmptyMap, <<"env in (qa,prod)">>), err |-> "nil"]
      [] expr = "tier=qa,env in (qa,prod)" ->
            [selector |-> LabelSelector(Map1("tier", "qa"), <<"env in (qa,prod)">>),
             err |-> "nil"]
      [] OTHER ->
            [selector |-> NilSelector, err |-> "ErrParse"]

\* getResourcesAndSelector: the selector is the last argument, the resources
\* are the arguments before it; no argument gives no resource and a nil selector.
getResourcesAndSelector(args) ==
    IF Len(args) = 0
    THEN [resources |-> <<>>, selector |-> NilSelector, err |-> "nil"]
    ELSE LET parsed == ParseToLabelSelector(args[Len(args)])
         IN  [resources |-> SubSeq(args, 1, Len(args) - 1),
              selector  |-> parsed.selector,
              err       |-> parsed.err]

\* ---------------------------------------------------------------- objects
\* A runtime.Object: its kind, whether it is the versioned (v1) form, the
\* resource-version token, the change-cause annotation and, for a Service,
\* Spec.Selector. A Go map is a reference: selectorMap names the map that
\* Spec.Selector refers to, "own" for the map the object got when it was
\* decoded, which no one else holds.
Object(kind, versioned, rv, cause, selector) ==
    [kind |-> kind, versioned |-> versioned, resourceVersion |-> rv,
     changeCause |-> cause, selector |-> selector, selectorMap |-> "own"]

\* The objects the builder can resolve: internal-version objects as read
\* from the server or decoded from a manifest.
TargetObjects ==
    {Object("Service", FALSE, 1, c, Map1("env", "prod")) : c \in {"", "kubectl apply"}}
    \cup {Object("Service", FALSE, 1, "", Map2("env", "prod", "tier", "web")),
          Object("Deployment", FALSE, 1, "", EmptyMap)}

\* updateSelectorForObject, were it to add the new labels to the old selector.
updateSelectorForObjectMerge(obj, selector) ==
    IF obj.kind = "Service" /\ obj.versioned
    THEN IF Len(selector.MatchExpressions) > 0
         THEN [obj |-> [obj EXCEPT !.selector = EmptyMap, !.selectorMap = "nil"],
               err |-> "ErrMatchExpression"]
         ELSE [obj |-> [obj EXCEPT !.selector =
                          [label \in DOMAIN obj.selector \cup DOMAIN selector.MatchLabels |->
                              IF label \in DOMAIN selector.MatchLabels
                              THEN selector.MatchLabels[label]
                              ELSE obj.selector[label]],
                                   !.selectorMap = "dst"],
               err |-> "nil"]
    ELSE [obj |-> obj, err |-> "ErrOnlyServices"]

\* updateSelectorForObject, were it to copy MatchLabels without looking at
\* MatchExpressions.
updateSelectorForObjectAnyForm(obj, selector) ==
    IF obj.kind = "Service" /\ obj.versioned
    THEN [obj |-> [obj EXCEPT !.selector =
                     [label \in DOMAIN selector.MatchLabels |->
                         selector.MatchLabels[label]],
                              !.selectorMap = "dst"],
          err |-> "nil"]
    ELSE [obj |-> obj, err |-> "ErrOnlyServices"]

\* updateSelectorForObject, were it to set the selector of any kind.
updateSelectorForObjectAnyKind(obj, selector) ==
    IF Len(selector.MatchExpressions) > 0
    THEN [obj |-> [obj EXCEPT !.selector = EmptyMap, !.selectorMap = "nil"],
          err |-> "ErrMatchExpression"]
    ELSE [obj |-> [obj EXCEPT !.selector =
                     [label \in DOMAIN selector.MatchLabels |->
                         selector.MatchLabels[label]],
                              !.selectorMap = "dst"],
          err |-> "nil"]

\* updateSelectorForObject, were it to assign selector.MatchLabels itself
\* instead of a copy.
updateSelectorForObjectShared(obj, selector) ==
    IF obj.kind = "Service" /\ obj.versioned
    THEN IF Len(selector.MatchExpressions) > 0
         THEN [obj |-> [obj EXCEPT !.selector = EmptyMap, !.selectorMap = "nil"],
               err |-> "ErrMatchExpression"]
         ELSE [obj |-> [obj EXCEPT !.selector = selector.MatchLabels,
                                   !.selectorMap = "MatchLabels"],
               err |-> "nil"]
    ELSE [obj |-> obj, err |-> "ErrOnlyServices"]

\* updateSelectorForObject: the type switch knows *v1.Service only; for a
\* Service the closure rejects match expressions, else copies MatchLabels
\* into dst, a map made by this call, which replaces Spec.Selector; on
\* rejection the closure's nil map is assigned.
updateSelectorForObject(obj, selector) ==
    IF obj.kind = "Service" /\ obj.versioned
    THEN IF Len(selector.MatchExpressions) > 0
         THEN [obj |-> [obj EXCEPT !.selector = EmptyMap, !.selectorMap = "nil"],
               err |-> "ErrMatchExpression"]
         ELSE [obj |-> [obj EXCEPT !.selector =
                          [label \in DOMAIN selector.MatchLabels |->
                              selector.MatchLabels[label]],
                                   !.selectorMap = "dst"],
               err |-> "nil"]
    ELSE [obj |-> obj, err |-> "ErrOnlyServices"]

\* ------------------------------------------------- encoding and patching
\* The JSON encoder writes a map's keys in sorted order.
KeyOrder == <<"env", "tier">>

\* runtime.Encode: the serialized form of an object; Spec.Selector becomes
\* the sequence of its <<key, value>> members in key order.
Encode(obj) ==
    LET Member(i) == <<KeyOrder[i], obj.selector[KeyOrder[i]]>>
        F[i \in 0..Len(KeyOrder)] ==
            IF i = 0 THEN <<>>
            ELSE IF KeyOrder[i] \in DOMAIN obj.selector
                 THEN Append(F[i - 1], Member(i))
                 ELSE F[i - 1]
    IN  [kind |-> obj.kind, resourceVersion |-> obj.resourceVersion,
         changeCause |-> obj.changeCause, selector |-> F[Len(KeyOrder)]]

\* The value a serialized selector gives a key, "absent" if it has none.
Lookup(members, key) ==
    LET hits == SelectSeq(members, LAMBDA m : m[1] = key)
    IN  IF Len(hits) = 0 THEN "absent" ELSE hits[1][2]

\* Decoding a serialized object into an internal-version object.
Decode(doc) ==
    LET keys == {doc.selector[i][1] : i \in 1..Len(doc.selector)}
    IN  Object(doc.kind, FALSE, doc.resourceVersion, doc.changeCause,
               [k \in keys |-> Lookup(doc.selector, k)])

\* The two-way strategic merge patch between two serialized forms: only the
\* selector members that differ, a member that disappeared as "null".
CreateTwoWayMergePatch(original, modified) ==
    LET F[i \in 0..Len(KeyOrder)] ==
            IF i = 0 THEN <<>>
            ELSE LET k == KeyOrder[i]
                     was == Lookup(original.selector, k)
                     now == Lookup(modified.selector, k)
                 IN  IF now = was THEN F[i - 1]
                     ELSE IF now = "absent" THEN Append(F[i - 1], <<k, "null">>)
                     ELSE Append(F[i - 1], <<k, now>>)
    IN  F[Len(KeyOrder)]

\* Applying a strategic merge patch to a serialized form.
StrategicMergePatch(doc, patch) ==
    LET F[i \in 0..Len(KeyOrder)] ==
            IF i = 0 THEN <<>>
            ELSE LET k == KeyOrder[i]
                     was == Lookup(doc.selector, k)
                     set == Lookup(patch, k)
                     now == IF set = "absent" THEN was
                            ELSE IF set = "null" THEN "absent" ELSE set
                 IN  IF now = "absent" THEN F[i - 1]
                     ELSE Append(F[i - 1], <<k, now>>)
    IN  [doc EXCEPT !.selector = F[Len(KeyOrder)]]

\* info.AsVersioned: the object converted to its versioned (v1) form.
AsVersioned(obj) == [obj EXCEPT !.versioned = TRUE]

\* CalculatePatch, had the closure returned the encoded object whatever
\* updateSelectorForObject answered.
CalculatePatchAnyway(obj, selector) ==
    LET before == Encode(obj)
        updated == updateSelectorForObject(AsVersioned(obj), selector)
    IN  [Info |-> updated.obj, Err |-> "nil",
         Patch |-> CreateTwoWayMergePatch(before, Encode(updated.obj))]

\* CalculatePatch, had the closure encoded the object as it was before
\* updateSelectorForObject changed it.
CalculatePatchStale(obj, selector) ==
    LET before == Encode(obj)
        updated == updateSelectorForObject(AsVersioned(obj), selector)
    IN  IF updated.err # "nil"
        THEN [Info |-> updated.obj, Err |-> updated.err, Patch |-> <<>>]
        ELSE [Info |-> updated.obj, Err |-> "nil",
              Patch |-> CreateTwoWayMergePatch(before, Encode(AsVersioned(obj)))]

\* CalculatePatch with the mutation closure RunSelector passes: encode the
\* object, replace info.Object by its versioned form, update its selector,
\* encode again and diff the two forms.
CalculatePatch(obj, selector) ==
    LET before == Encode(obj)
        updated == updateSelectorForObject(AsVersioned(obj), selector)
    IN  IF updated.err # "nil"
        THEN [Info |-> updated.obj, Err |-> updated.err, Patch |-> <<>>]
        ELSE [Info |-> updated.obj, Err |-> "nil",
              Patch |-> CreateTwoWayMergePatch(before, Encode(updated.obj))]

\* ------------------------------------------------------ remote collaborator
\* Helper.Patch on the server: the patch is merged into the stored object,
\* which gets a new resource version. The request carries the patch only.
ServerPatch(stored, patch) ==
    [Decode(StrategicMergePatch(Encode(stored), patch))
        EXCEPT !.resourceVersion = stored.resourceVersion + 1]

\* cmdutil.RecordChangeCause: stamps the change-cause annotation.
RecordChangeCause(obj, cause) == [obj EXCEPT !.changeCause = cause]

\* Helper.Replace on the server: the object is sent encoded, and the stored
\* object becomes the one sent, with a new resource version.
ServerReplace(stored, obj) ==
    [Decode(Encode(obj)) EXCEPT !.resourceVersion = stored.resourceVersion + 1]

\* cmdutil.ContainsChangeCause: the object carries a change-cause annotation.
ContainsChangeCause(obj) == obj.changeCause # ""

\* ------------------------------------------------------------------ state
VARIABLES
    flags,    \* the command's flags as given on the command line
    args,     \* the positional arguments
    o,        \* the SelectorOptions
    pc,       \* the step of the command's Run function that comes next
    exit,     \* the error the command ended with ("nil" for none)
    infos,    \* the resolved targets: info.Object of each
    server,   \* the stored object behind each target
    idx,      \* the target the visitor hands out next
    status,   \* each target's state: Pending, LocalDone, Refreshed, Failed
    errs,     \* the errors the visitor has collected, with the target's index
    calls,    \* per target, the calls its visit made to its collaborators, in order
    out       \* the objects handed to PrintObj, with the target's index

vars == <<flags, args, o, pc, exit, infos, server, idx, status, errs, calls, out>>

\* The values of --resource-version: empty (0), the resource version the
\* targets have when they are resolved, and another one.
ResourceVersions == {0, 1, 2}

\* The positional arguments an invocation can have.
Args ==
    {<<>>} \cup {<<e>> : e \in Exprs} \cup {<<"services", e>> : e \in Exprs}

\* NewCmdSelector: the options start zeroed; the flags are what was typed.
Init ==
    /\ flags \in [local : BOOLEAN, dryrun : BOOLEAN, record : BOOLEAN,
                  filenames : BOOLEAN, resourceVersion : ResourceVersions]
    /\ args \in Args
    /\ o = [local |-> FALSE, dryrun |-> FALSE, record |-> FALSE,
            changeCause |-> "", resources |-> <<>>, selector |-> NilSelector]
    /\ pc = "Complete"
    /\ exit = "nil"
    /\ infos = <<>>
    /\ server = <<>>
    /\ idx = 1
    /\ status = <<>>
    /\ errs = <<>>
    /\ calls = <<>>
    /\ out = <<>>

\* cmdutil.CheckErr: a non-nil error ends the command with that error.
CheckErr(err, next) ==
    IF err = "nil"
    THEN pc' = next /\ exit' = exit
    ELSE pc' = "exit" /\ exit' = err

\* Complete's returns, had it left out the test for resources given with
\* --local.
CompleteErrLocalUnchecked(parsed, namespaceOK, printerOK) ==
    IF ~namespaceOK THEN "ErrNamespace"
    ELSE IF parsed.err # "nil" THEN parsed.err
    ELSE IF ~printerOK THEN "ErrPrinter"
    ELSE "nil"

\* The error Complete returns, in the order of its returns: the namespace
\* lookup, the parse of the arguments, resources given with --local, the
\* printer.
CompleteErr(parsed, namespaceOK, printerOK) ==
    IF ~namespaceOK THEN "ErrNamespace"
    ELSE IF parsed.err # "nil" THEN parsed.err
    ELSE IF flags.local /\ Len(parsed.resources) > 0 THEN "LocalResourceError"
    ELSE IF ~printerOK THEN "ErrPrinter"
    ELSE "nil"

\* SelectorOptions.Complete.
Complete ==
    /\ pc = "Complete"
    /\ \E namespaceOK \in BOOLEAN, printerOK \in BOOLEAN :
         LET parsed == getResourcesAndSelector(args)
             read == [o EXCEPT !.local = flags.local, !.record = flags.record,
                               !.dryrun = flags.dryrun]
         IN  /\ o' = IF ~namespaceOK THEN read
                     ELSE [read EXCEPT !.changeCause = "kubectl set selector",
                                       !.resources = parsed.resources,
                                       !.selector = parsed.selector]
             /\ CheckErr(CompleteErr(parsed, namespaceOK, printerOK), "Validate")
    /\ UNCHANGED <<flags, args, infos, server, idx, status, errs, calls, out>>

\* Validate, had it left out the test that a target was specified.
ValidateErrSelectorOnly ==
    IF o.selector.nil THEN "ErrNoSelector" ELSE "nil"

\* SelectorOptions.Validate: the error it returns.
ValidateErr ==
    IF Len(o.resources) < 1 /\ ~flags.filenames THEN "ErrNoResources"
    ELSE IF o.selector.nil THEN "ErrNoSelector"
    ELSE "nil"

\* The command's Run: CheckErr(options.Validate()).
Validate ==
    /\ pc = "Validate"
    /\ CheckErr(ValidateErr, "RunSelector")
    /\ UNCHANGED <<flags, args, o, infos, server, idx, status, errs, calls, out>>

\* RunSelector up to r.Visit: the builder resolves the targets, or fails.
\* Targets given as a type, or as a manifest holding an empty list, can
\* resolve to none.
Do ==
    /\ pc = "RunSelector"
    /\ \/ /\ CheckErr("ErrBuilder", "Visit")
          /\ UNCHANGED <<infos, server, status, calls>>
       \/ \E n \in 0..MaxObjs :
            \E objs \in [1..n -> TargetObjects] :
               /\ infos' = objs
               /\ server' = objs
               /\ status' = [i \in 1..n |-> "Pending"]
               /\ calls' = [i \in 1..n |-> <<>>]
               /\ CheckErr("nil", "Visit")
    /\ UNCHANGED <<flags, args, o, idx, errs, out>>

\* The builder, had it not been configured with ContinueOnError().
ContinueOnErrorUnset == FALSE

\* The builder was configured with ContinueOnError().
ContinueOnError == TRUE

\* One call of a visit, and whether it succeeded.
Call(name, ok) == [call |-> name, ok |-> ok]

\* The test of the run mode, had it left out o.dryrun.
LocalOnly == o.local

\* "o.local || o.dryrun": the visit ends after the patch computation.
LocalOrDryRun == o.local \/ o.dryrun

\* "return err", had the object been printed before the error was looked at.
ReturnErrPrinted(info, stored, err, made) ==
    [info |-> info, stored |-> stored, err |-> err,
     calls |-> Append(made, Call("PrintObj", TRUE)),
     printed |-> <<info>>]

\* "return err": the visit function returns an error; nothing is printed.
ReturnErr(info, stored, err, made) ==
    [info |-> info, stored |-> stored, err |-> err, calls |-> made,
     printed |-> <<>>]

\* "return o.PrintObj(obj, o.out)": the object goes to the sink, whose
\* error, if any, is the visit's.
ReturnPrintObj(info, stored, obj, printOK, made) ==
    [info |-> info, stored |-> stored,
     err |-> IF printOK THEN "nil" ELSE "ErrPrint",
     calls |-> Append(made, Call("PrintObj", printOK)),
     printed |-> <<obj>>]

\* What the collaborators do during one visit: the call that returns an
\* error, if it is reached ("none": every call succeeds), and whether
\* RecordChangeCause manages to stamp the annotation.
Envs == [failing : {"none", "Patch", "Replace", "PrintObj"}, stamp : BOOLEAN]

\* The test before the follow-up, had it left out both conditions.
ShouldRecordAlways(info) == TRUE

\* "o.record || cmdutil.ContainsChangeCause(info)": the change cause is to
\* be recorded.
ShouldRecord(info) == o.record \/ ContainsChangeCause(info)

\* The calls of a visit from the Patch that succeeded up to the Replace:
\* RecordChangeCause if the change cause is to be recorded, Replace if the
\* annotation was stamped.
FollowUpCalls(record, env) ==
    <<Call("Patch", TRUE)>>
    \o (IF record THEN <<Call("RecordChangeCause", env.stamp)>> ELSE <<>>)
    \o (IF record /\ env.stamp
        THEN <<Call("Replace", env.failing # "Replace")>> ELSE <<>>)

\* The visit function, had it gone on after a Patch that returned an error.
VisitFuncPatchErrDropped(info, stored, env) ==
    LET patch == CalculatePatch(info, o.selector)
    IN  IF patch.Err # "nil"
        THEN ReturnErr(patch.Info, stored, patch.Err, <<>>)
        ELSE IF LocalOrDryRun
        THEN ReturnPrintObj(patch.Info, stored, patch.Info,
                            env.failing # "PrintObj", <<>>)
        ELSE LET patched == IF env.failing = "Patch" THEN stored
                            ELSE ServerPatch(stored, patch.Patch)
                 record == ShouldRecord(patch.Info)
                 replace == record /\ env.stamp
                 made == IF env.failing = "Patch"
                         THEN <<Call("Patch", FALSE)>>
                              \o Tail(FollowUpCalls(record, env))
                         ELSE FollowUpCalls(record, env)
             IN  IF replace /\ env.failing = "Replace"
                 THEN ReturnErr(patch.Info, patched, "ErrRecord", made)
                 ELSE LET replaced ==
                              IF replace
                              THEN ServerReplace(patched,
                                       RecordChangeCause(patched, o.changeCause))
                              ELSE patched
                      IN  ReturnPrintObj(replaced, replaced, AsVersioned(replaced),
                                         env.failing # "PrintObj",
                                         Append(made, Call("Refresh", TRUE)))

\* The function RunSelector passes to r.Visit, run on one target in the
\* environment env. The result is the target's object,
\* its stored object, the error returned, the calls made and what PrintObj
\* was handed.
VisitFunc(info, stored, env) ==
    LET patch == CalculatePatch(info, o.selector)
    IN  IF patch.Err # "nil"
        THEN ReturnErr(patch.Info, stored, patch.Err, <<>>)
        ELSE IF LocalOrDryRun
        THEN ReturnPrintObj(patch.Info, stored, patch.Info,
                            env.failing # "PrintObj", <<>>)
        ELSE IF env.failing = "Patch"
        THEN ReturnErr(patch.Info, stored, "ErrPatch", <<Call("Patch", FALSE)>>)
        ELSE LET patched == ServerPatch(stored, patch.Patch)
                 record == ShouldRecord(patch.Info)
                 replace == record /\ env.stamp
                 made == FollowUpCalls(record, env)
             IN  IF replace /\ env.failing = "Replace"
                 THEN ReturnErr(patch.Info, patched, "ErrRecord", made)
                 ELSE LET replaced ==
                              IF replace
                              THEN ServerReplace(patched,
                                       RecordChangeCause(patched, o.changeCause))
                              ELSE patched
                      IN  ReturnPrintObj(replaced, replaced, AsVersioned(replaced),
                                         env.failing # "PrintObj",
                                         Append(made, Call("Refresh", TRUE)))

\* The state a visit leaves its target in.
StatusOf(err) ==
    IF err # "nil" THEN "Failed"
    ELSE IF LocalOrDryRun THEN "LocalDone"
    ELSE "Refreshed"

\* r.Visit hands the next target to the function; its error is collected
\* and the visit goes on (ContinueOnError), else it would end the visit.
Visit ==
    /\ pc = "Visit"
    /\ idx <= Len(infos)
    /\ \E env \in Envs :
         LET r == VisitFunc(infos[idx], server[idx], env)
         IN  /\ infos' = [infos EXCEPT ![idx] = r.info]
             /\ server' = [server EXCEPT ![idx] = r.stored]
             /\ status' = [status EXCEPT ![idx] = StatusOf(r.err)]
             /\ calls' = [calls EXCEPT ![idx] = r.calls]
             /\ out' = out \o [i \in 1..Len(r.printed) |->
                                  [target |-> idx, obj |-> r.printed[i]]]
             /\ IF r.err = "nil"
                THEN errs' = errs /\ CheckErr("nil", "Visit")
                ELSE /\ errs' = Append(errs, [target |-> idx, err |-> r.err])
                     /\ CheckErr(IF ContinueOnError THEN "nil" ELSE r.err, "Visit")
    /\ idx' = idx + 1
    /\ UNCHANGED <<flags, args, o>>

\* RunSelector, had it dropped what r.Visit returns.
ReturnNil ==
    /\ pc = "Visit"
    /\ idx > Len(infos)
    /\ pc' = "exit"
    /\ exit' = "nil"
    /\ UNCHANGED <<flags, args, o, infos, server, idx, status, errs, calls, out>>

\* r.Visit returns what it collected; RunSelector returns it to CheckErr.
Return ==
    /\ pc = "Visit"
    /\ idx > Len(infos)
    /\ pc' = "exit"
    /\ exit' = IF Len(errs) = 0 THEN "nil"
               ELSE IF Len(errs) = 1 THEN errs[1].err
               ELSE "ErrAggregate"
    /\ UNCHANGED <<flags, args, o, infos, server, idx, status, errs, calls, out>>

Next == Complete \/ Validate \/ Do \/ Visit \/ Return

Spec == Init /\ [][Next]_vars

\* ------------------------------------------------------------- properties
\* The targets whose visit has ended, and those still to be visited.
Visited == 1..(idx - 1)

Unvisited == idx..Len(infos)

\* The selector in the options has equality terms only / has set-based terms.
EqualityOnly == ~o.selector.nil /\ Len(o.selector.MatchExpressions) = 0

SetBased == Len(o.selector.MatchExpressions) > 0

\* The error collected for target i, "nil" if none.
ErrOf(i) ==
    LET hits == SelectSeq(errs, LAMBDA e : e.target = i)
    IN  IF Len(hits) = 0 THEN "nil" ELSE hits[1].err

\* How often PrintObj was handed target i.
PrintCount(i) == Len(SelectSeq(out, LAMBDA e : e.target = i))

\* Whether the visit of target i made the call, with the outcome.
Made(i, name, ok) == \E k \in 1..Len(calls[i]) : calls[i][k] = Call(name, ok)

\* C1 (total replacement): with an equality-only selector S, mutating a
\* Service succeeds and leaves it with exactly S.MatchLabels as its selector,
\* whatever its prior selector; so does every visited Service, also after the
\* patch was applied remotely and the object refreshed.
C1_TotalReplacement ==
    EqualityOnly =>
        /\ \A i \in Unvisited :
              infos[i].kind = "Service" =>
                LET r == updateSelectorForObject(AsVersioned(infos[i]), o.selector)
                IN  /\ r.err = "nil"
                    /\ r.obj.selector = o.selector.MatchLabels
                    /\ \A k \in DOMAIN infos[i].selector :
                          k \notin DOMAIN o.selector.MatchLabels =>
                              k \notin DOMAIN r.obj.selector
        /\ \A i \in Visited :
              infos[i].kind = "Service" =>
                infos[i].selector = o.selector.MatchLabels

\* C1 witness: a visited Service whose prior selector had the key tier, which
\* the new selector {env: qa} does not have, now has exactly {env: qa}.
C1_Witness ==
    \E i \in Visited :
        /\ status[i] = "LocalDone"
        /\ "tier" \in DOMAIN server[i].selector
        /\ infos[i].selector = Map1("env", "qa")

\* C2 as stated: with a set-based selector, mutate fails with the
\* match-expression error for every object kind.
C2_RejectionEveryKind ==
    SetBased =>
        /\ \A i \in Unvisited :
              updateSelectorForObject(AsVersioned(infos[i]), o.selector).err
                  = "ErrMatchExpression"
        /\ \A i \in Visited : ErrOf(i) = "ErrMatchExpression"

\* C2 amended: with a set-based selector, mutate fails for every object kind,
\* whether or not MatchLabels is populated: with the match-expression error
\* for a Service, with the only-Services error for any other kind.
C2_Rejection ==
    SetBased =>
        /\ \A i \in Unvisited :
              updateSelectorForObject(AsVersioned(infos[i]), o.selector).err
                  = (IF infos[i].kind = "Service" THEN "ErrMatchExpression"
                     ELSE "ErrOnlyServices")
        /\ \A i \in Visited :
              /\ status[i] = "Failed"
              /\ ErrOf(i) = (IF infos[i].kind = "Service" THEN "ErrMatchExpression"
                             ELSE "ErrOnlyServices")

\* C2 witness: a Service was rejected with the match-expression error under a
\* selector that has both MatchLabels and MatchExpressions.
C2_Witness ==
    \E i \in Visited :
        /\ infos[i].kind = "Service"
        /\ ErrOf(i) = "ErrMatchExpression"
        /\ SetBased
        /\ DOMAIN o.selector.MatchLabels # {}

\* C3 as stated: when the Patch of a target succeeded and the follow-up
\* Replace failed, the target is not Failed: no error is collected for it,
\* it was refreshed and it was handed to PrintObj.
C3_ReplaceFailureNotTerminal ==
    \A i \in Visited :
        Made(i, "Patch", TRUE) /\ Made(i, "Replace", FALSE) =>
            /\ status[i] # "Failed"
            /\ ErrOf(i) = "nil"
            /\ Made(i, "Refresh", TRUE)
            /\ PrintCount(i) = 1

\* C4 as stated: with a non-empty --resource-version, a step changes a stored
\* object only if the flag's value is that object's resource version.
C4_ResourceVersionPrecondition ==
    [][\A i \in 1..Len(server) :
          flags.resourceVersion # 0 /\ server'[i] # server[i] =>
              server[i].resourceVersion = flags.resourceVersion]_vars

\* A target no visit has touched: as resolved, no call made, nothing printed.
Untouched(i) ==
    /\ status[i] = "Pending"
    /\ infos[i] \in TargetObjects
    /\ server[i] = infos[i]
    /\ calls[i] = <<>>
    /\ PrintCount(i) = 0

\* What a step leaves of every target other than the one being visited.
OthersUnchanged ==
    pc = "Visit" =>
        \A j \in 1..Len(infos) :
            j # idx =>
                /\ infos'[j] = infos[j]
                /\ server'[j] = server[j]
                /\ status'[j] = status[j]
                /\ calls'[j] = calls[j]
                /\ SelectSeq(out', LAMBDA e : e.target = j)
                     = SelectSeq(out, LAMBDA e : e.target = j)

\* C5 (batch isolation): whatever failed before, the targets not yet visited
\* are untouched, so their visit starts as in a batch without failures; the
\* visit of one target changes nothing of any other target; and the visit
\* returns only when every target has been visited.
C5_BatchIsolation ==
    /\ [](\A j \in Unvisited : Untouched(j))
    /\ [](pc = "exit" /\ Len(infos) > 0 =>
             \A j \in 1..Len(infos) :
                 status[j] \in {"LocalDone", "Refreshed", "Failed"})
    /\ [][OthersUnchanged]_vars

\* C5 witness: the batch has ended, a target failed at the remote Patch,
\* another at the patch computation, and a later target was still refreshed.
C5_Witness ==
    /\ pc = "exit"
    /\ \E i, j \in 1..Len(infos) :
          /\ i < j
          /\ ErrOf(i) \in {"ErrPatch", "ErrOnlyServices"}
          /\ status[i] = "Failed"
          /\ status[j] = "Refreshed"
          /\ PrintCount(j) = 1

\* C6 as stated: with a set-based selector the invocation is aborted before
\* any target is visited.
C6_SetBasedFailsFast == SetBased => idx = 1

\* C6 amended: a set-based selector passes Validate; every resolved target is
\* visited and its visit fails at the patch computation, so no Patch, Replace
\* or PrintObj call is made and no stored object changes, and a batch of at
\* least one target ends with an error.
C6_SetBasedFailsPerObject ==
    SetBased =>
        /\ \A i \in Visited :
              /\ status[i] = "Failed"
              /\ ErrOf(i) \in {"ErrMatchExpression", "ErrOnlyServices"}
              /\ calls[i] = <<>>
              /\ server[i] \in TargetObjects
        /\ out = <<>>
        /\ (pc = "exit" /\ Len(infos) > 0 => exit # "nil" /\ idx = Len(infos) + 1)

\* C6 witness: under a set-based selector the batch has ended, two targets
\* were visited and both failed.
C6_Witness ==
    /\ SetBased
    /\ pc = "exit"
    /\ idx = 3
    /\ Len(errs) = 2
    /\ exit = "ErrAggregate"

\* C7 (local / dry-run): in local or dry-run mode no visit makes a Patch or
\* Replace call, no stored object changes, and every target whose patch
\* computation succeeded was handed to PrintObj once, as the in-memory object
\* carrying the new selector.
C7_LocalNoRemoteWrite ==
    o.local \/ o.dryrun =>
        \A i \in Visited :
            /\ \A k \in 1..Len(calls[i]) : calls[i][k].call = "PrintObj"
            /\ server[i] \in TargetObjects
            /\ ErrOf(i) \notin {"ErrMatchExpression", "ErrOnlyServices"} =>
                  /\ PrintCount(i) = 1
                  /\ \E k \in 1..Len(out) :
                        /\ out[k].target = i
                        /\ out[k].obj = infos[i]
                        /\ out[k].obj.selector = o.selector.MatchLabels

\* C7 witness: dry-run without local; a Service with selector {env: prod} was
\* printed with {env: qa}, and its stored object still has {env: prod}.
C7_Witness ==
    /\ o.dryrun /\ ~o.local
    /\ \E i \in Visited :
          /\ status[i] = "LocalDone"
          /\ server[i].selector = Map1("env", "prod")
          /\ \E k \in 1..Len(out) :
                out[k].target = i /\ out[k].obj.selector = Map1("env", "qa")

\* C8 (output sink): PrintObj is invoked exactly once for every target whose
\* visit succeeded and never for a target that failed at the patch
\* computation, at the remote Patch or at the follow-up Replace; a target not
\* yet visited has not been printed.
C8_OutputSink ==
    /\ \A i \in Visited :
          /\ status[i] \in {"LocalDone", "Refreshed"} => PrintCount(i) = 1
          /\ ErrOf(i) \in {"ErrMatchExpression", "ErrOnlyServices", "ErrPatch",
                            "ErrRecord"} => PrintCount(i) = 0
    /\ \A i \in Unvisited : PrintCount(i) = 0

\* C8 witness: the batch has ended with one target failed at the Patch and
\* not printed, and one target refreshed and printed once.
C8_Witness ==
    /\ pc = "exit"
    /\ \E i, j \in 1..Len(infos) :
          /\ ErrOf(i) = "ErrPatch" /\ PrintCount(i) = 0
          /\ status[j] = "Refreshed" /\ PrintCount(j) = 1

\* C9 (kind dispatch): with an equality-only selector, mutate of an object
\* that is not a Service fails with the only-Services error and leaves the
\* object as it was, and the visit of such a target ends in Failed.
C9_KindDispatch ==
    EqualityOnly =>
        /\ \A i \in Unvisited :
              infos[i].kind # "Service" =>
                LET r == updateSelectorForObject(AsVersioned(infos[i]), o.selector)
                IN  r.err = "ErrOnlyServices" /\ r.obj = AsVersioned(infos[i])
        /\ \A i \in Visited :
              infos[i].kind # "Service" =>
                /\ status[i] = "Failed"
                /\ ErrOf(i) = "ErrOnlyServices"
                /\ PrintCount(i) = 0

\* C9 witness: a Deployment was visited under an equality-only selector and
\* failed with the only-Services error.
C9_Witness ==
    /\ EqualityOnly
    /\ \E i \in Visited :
          /\ infos[i].kind = "Deployment"
          /\ status[i] = "Failed"
          /\ ErrOf(i) = "ErrOnlyServices"

\* C10 as stated: an invocation whose targets resolve to none, or that has no
\* selector, does not end without error.
C10_EmptyResolutionFailsFast ==
    pc = "exit" /\ exit = "nil" => Len(infos) > 0 /\ ~o.selector.nil

\* No target was specified: no resource argument and no filename.
NoTargetSpecified == Len(args) <= 1 /\ ~flags.filenames

\* No selector was supplied: there is no argument at all.
NoSelectorSupplied == Len(args) = 0

\* C10 amended: if no target is specified (no resource argument and no
\* filename), or no selector was supplied, the invocation ends with an error
\* before any target is resolved or visited, and when Complete succeeded that
\* error is Validate's configuration error; targets that were specified but
\* resolve to none give no error.
C10_FailFastValidate ==
    NoTargetSpecified \/ NoSelectorSupplied =>
        /\ pc \in {"Complete", "Validate", "exit"}
        /\ infos = <<>> /\ idx = 1 /\ out = <<>> /\ errs = <<>>
        /\ pc = "exit" =>
              exit \in {"ErrNoResources", "ErrNoSelector",
                        "ErrNamespace", "ErrParse", "ErrPrinter"}

\* C10 witness: a selector was given but no target, Complete succeeded and
\* the invocation has ended with the no-resources error.
C10_Witness ==
    /\ pc = "exit"
    /\ exit = "ErrNoResources"
    /\ ~o.selector.nil

\* C10 second case reached: with a filename but no argument the invocation
\* ends with the no-selector error.
C10_WitnessNoSelector ==
    /\ pc = "exit"
    /\ exit = "ErrNoSelector"

\* C11 (round trip): for every target and equality-only selector, applying
\* the computed patch to the serialized form of the target before the
\* mutation gives the serialized form of the mutated target; and the object a
\* successful remote Patch stored has the serialized selector of the mutated
\* object.
C11_RoundTrip ==
    EqualityOnly =>
        /\ \A i \in Unvisited :
              LET before == Encode(infos[i])
                  patch == CalculatePatch(infos[i], o.selector)
              IN  patch.Err = "nil" =>
                    StrategicMergePatch(before, patch.Patch) = Encode(patch.Info)
        /\ \A i \in Visited :
              Made(i, "Patch", TRUE) =>
                Encode(server[i]).selector
                    = Encode([server[i] EXCEPT !.selector = o.selector.MatchLabels]).selector

\* C11 witness: a Service with selector {env: prod, tier: web} waits for its
\* visit, its patch sets env and deletes tier; the Service before it was
\* patched remotely and is stored with the members of {env: qa}.
C11_Witness ==
    /\ EqualityOnly
    /\ \E i \in Unvisited :
          /\ infos[i].selector = Map2("env", "prod", "tier", "web")
          /\ CalculatePatch(infos[i], o.selector).Patch
                = <<(<<"env", "qa">>), (<<"tier", "null">>)>>
    /\ \E j \in Visited :
          /\ Made(j, "Patch", TRUE)
          /\ Encode(server[j]).selector = <<(<<"env", "qa">>)>>

\* C12 as stated: when the remote Patch of a target succeeded, the local
\* object is the one the server returned, with a resource version other than
\* the one it was resolved with, and that object was handed to PrintObj.
C12_RefreshOnRemoteSuccess ==
    \A i \in Visited :
        Made(i, "Patch", TRUE) =>
            /\ Made(i, "Refresh", TRUE)
            /\ infos[i] = server[i]
            /\ infos[i].resourceVersion # 1
            /\ \E k \in 1..Len(out) :
                  out[k].target = i /\ out[k].obj = AsVersioned(server[i])

\* C12 without the visits whose follow-up Replace failed.
C12_RefreshUnlessReplaceFailed ==
    \A i \in Visited :
        Made(i, "Patch", TRUE) /\ ~Made(i, "Replace", FALSE) =>
            /\ Made(i, "Refresh", TRUE)
            /\ infos[i] = server[i]
            /\ infos[i].resourceVersion # 1
            /\ \E k \in 1..Len(out) :
                  out[k].target = i /\ out[k].obj = AsVersioned(server[i])

\* The errors that end the command before r.Visit is called.
PreVisitErrors ==
    {"ErrNamespace", "ErrParse", "LocalResourceError", "ErrPrinter",
     "ErrNoResources", "ErrNoSelector", "ErrBuilder"}

\* The command has ended and r.Visit had been called.
BatchEnded == pc = "exit" /\ exit \notin PreVisitErrors

\* C13 (aggregate outcome): when the batch has ended, the command's outcome
\* is an error if and only if at least one target ended in Failed, and every
\* target that succeeded was handed to PrintObj.
C13_AggregateOutcome ==
    BatchEnded =>
        /\ exit # "nil" <=> \E i \in 1..Len(infos) : status[i] = "Failed"
        /\ \A i \in 1..Len(infos) :
              /\ status[i] # "Pending"
              /\ status[i] \in {"LocalDone", "Refreshed"} =>
                    PrintCount(i) = 1 /\ ErrOf(i) = "nil"

\* C13 witness: the batch has ended with an error, one target Failed and
\* another refreshed and printed.
C13_Witness ==
    /\ BatchEnded
    /\ exit # "nil"
    /\ \E i, j \in 1..Len(infos) :
          /\ status[i] = "Failed"
          /\ status[j] = "Refreshed"
          /\ PrintCount(j) = 1

\* C14 as stated: when mutate rejects a set-based selector for a Service, the
\* Service's selector still holds its prior value after the failed call.
C14_RejectionBeforeAssignment ==
    SetBased =>
        /\ \A i \in Unvisited :
              infos[i].kind = "Service" =>
                LET r == updateSelectorForObject(AsVersioned(infos[i]), o.selector)
                IN  /\ r.err = "ErrMatchExpression"
                    /\ r.obj.selector = infos[i].selector
        /\ \A i \in Visited :
              infos[i].kind = "Service" =>
                /\ ErrOf(i) = "ErrMatchExpression"
                /\ infos[i].selector = server[i].selector

\* The visit of target i failed at the patch computation.
ComputeFailed(i) == ErrOf(i) \in {"ErrMatchExpression", "ErrOnlyServices"}

\* Whether call number k of a visit is one of the named calls.
IsCall(c, k, names) == c[k].call \in names

\* C15 (per-object ordering in remote mode): a visit whose patch computation
\* failed made no call and ends in Failed; otherwise the Patch is the first
\* call; RecordChangeCause, Replace, Refresh and PrintObj come only after a
\* Patch that succeeded, Refresh and PrintObj only after the Replace if there
\* is one, PrintObj last and right after Refresh; a Patch that failed is the
\* visit's only call and the target ends in Failed, unprinted.
C15_RemoteOrdering ==
    ~o.local /\ ~o.dryrun =>
        \A i \in Visited :
            LET c == calls[i]
            IN  /\ ComputeFailed(i) => c = <<>> /\ status[i] = "Failed"
                /\ ~ComputeFailed(i) => Len(c) >= 1 /\ c[1].call = "Patch"
                /\ \A k \in 1..Len(c) :
                      /\ IsCall(c, k, {"Patch"}) => k = 1
                      /\ IsCall(c, k, {"RecordChangeCause", "Replace",
                                       "Refresh", "PrintObj"}) =>
                            c[1] = Call("Patch", TRUE)
                      /\ IsCall(c, k, {"Replace"}) =>
                            \A j \in 1..(k - 1) :
                                ~IsCall(c, j, {"Refresh", "PrintObj"})
                      /\ IsCall(c, k, {"Refresh"}) =>
                            \A j \in (k + 1)..Len(c) :
                                IsCall(c, j, {"PrintObj"})
                      /\ IsCall(c, k, {"PrintObj"}) =>
                            k = Len(c) /\ IsCall(c, k - 1, {"Refresh"})
                /\ Made(i, "Patch", FALSE) =>
                      /\ c = <<Call("Patch", FALSE)>>
                      /\ status[i] = "Failed"
                      /\ PrintCount(i) = 0
                      /\ infos[i].resourceVersion = 1
                /\ status[i] = "Refreshed" =>
                      Made(i, "Refresh", TRUE) /\ Made(i, "PrintObj", TRUE)

\* C15 witness: in remote mode one target went through Patch,
\* RecordChangeCause, Replace, Refresh and PrintObj, and another failed at
\* its Patch.
C15_Witness ==
    /\ ~o.local /\ ~o.dryrun
    /\ \E i, j \in Visited :
          /\ calls[i] = <<Call("Patch", TRUE), Call("RecordChangeCause", TRUE),
                          Call("Replace", TRUE), Call("Refresh", TRUE),
                          Call("PrintObj", TRUE)>>
          /\ status[i] = "Refreshed"
          /\ calls[j] = <<Call("Patch", FALSE)>>

\* The visit of target i called Replace, whatever came of it.
ReplaceSent(i) == \E k \in 1..Len(calls[i]) : calls[i][k].call = "Replace"

\* The Visit step sends a Replace for its target only if the record option
\* is set or the target carried a change-cause annotation before the visit.
ReplaceGated ==
    pc = "Visit" /\ idx <= Len(infos) =>
        ((\E k \in 1..Len(calls'[idx]) : calls'[idx][k].call = "Replace") =>
            o.record \/ infos[idx].changeCause # "")

\* C17 (audit follow-up gating): a Replace is sent for a target only after
\* its Patch succeeded and only if the record option is set or the target
\* already carried a change-cause annotation; when stamping the annotation
\* fails, no Replace is sent, the target is refreshed and handed to PrintObj
\* once, and it ends Refreshed without an error if PrintObj succeeds.
C17_AuditGating ==
    /\ [](\A i \in Visited :
            /\ ReplaceSent(i) => calls[i][1] = Call("Patch", TRUE)
            /\ Made(i, "RecordChangeCause", FALSE) =>
                  /\ ~ReplaceSent(i)
                  /\ Made(i, "Refresh", TRUE)
                  /\ PrintCount(i) = 1
                  /\ Made(i, "PrintObj", TRUE) =>
                        status[i] = "Refreshed" /\ ErrOf(i) = "nil")
    /\ [][ReplaceGated]_vars

\* C17 witness: without the record option, an annotated target got its
\* Replace, and another target's stamping failed and it was still refreshed
\* and printed.
C17_Witness ==
    /\ ~o.record
    /\ \E i, j \in Visited :
          /\ Made(i, "Replace", TRUE) /\ status[i] = "Refreshed"
          /\ Made(j, "RecordChangeCause", FALSE)
          /\ status[j] = "Refreshed" /\ PrintCount(j) = 1

\* --local is set and a resource precedes the selector expression.
LocalWithResources == flags.local /\ Len(args) >= 2

\* Nothing was resolved, visited, mutated or printed and no call was made.
NothingDone ==
    /\ infos = <<>> /\ server = <<>> /\ status = <<>> /\ calls = <<>>
    /\ idx = 1 /\ errs = <<>> /\ out = <<>>

\* C18 as stated (local mode with explicit resources fails fast): with
\* --local and a resource before the selector expression, Complete ends the
\* command with the local-resource error and nothing is done.
C18_LocalResourceError ==
    LocalWithResources /\ pc # "Complete" =>
        pc = "exit" /\ exit = "LocalResourceError" /\ NothingDone

\* C18 amended: with --local and a resource before the selector expression,
\* Complete ends the command with an error and nothing is done; the error is
\* the local-resource error exactly when the namespace lookup and the parse
\* of the selector expression succeeded, otherwise it is the error of the
\* one that failed.
C18_LocalFailsInComplete ==
    LocalWithResources =>
        /\ pc \in {"Complete", "exit"}
        /\ NothingDone
        /\ pc = "exit" =>
              /\ exit \in {"ErrNamespace", "ErrParse", "LocalResourceError"}
              /\ exit = "LocalResourceError" <=> ~o.selector.nil
              /\ exit = "ErrParse" =>
                    ParseToLabelSelector(args[Len(args)]).err = "ErrParse"

\* C18 witness: the command ended with the local-resource error.
C18_Witness ==
    /\ LocalWithResources
    /\ pc = "exit" /\ exit = "LocalResourceError"
    /\ o.local /\ Len(o.resources) > 0

\* Every object of the batch: the targets' objects, the stored objects and
\* what PrintObj was handed.
BatchObjects ==
    {infos[i] : i \in 1..Len(infos)} \cup {server[i] : i \in 1..Len(server)}
    \cup {out[k].obj : k \in 1..Len(out)}

\* Once Complete has filled them in, no step changes the options.
OptionsKept == pc # "Complete" => o' = o

====
